---- MODULE Spec2Model ----
(***************************************************************************)
(* A model of beeroll's capture session controller (useScreenRecording),   *)
(* its compression pipeline (CompressionEngine) and the stop handler of    *)
(* the ScreenRecorder component that connects the two.                     *)
(*                                                                         *)
(* JavaScript runs one piece of code at a time: every action below is one  *)
(* synchronous run of code, from a call or the settling of an awaited      *)
(* promise up to the next await.                                           *)
(***************************************************************************)
EXTENDS Integers, Sequences, FiniteSets, TLC

(***************************************************************************)
(* Bounds of the model.                                                    *)
(***************************************************************************)
\* compress() calls made in one behaviour
MaxJobs == 2
\* compress() calls made in one behaviour in which cancel() is followed up
MaxJobsCancel == 3
Jobs == 1..MaxJobsCancel

\* the artifacts handed to compress(): size and type; the first is the empty blob
BlobInputs ==
    {<<0, "">>, <<500000, "video/webm;codecs=vp9,opus">>, <<500000, "video/webm;codecs=vp9">>,
     <<500000, "video/webm;codecs=vp8,opus">>, <<500000, "video/mp4">>}
\* sizes of the file the engine writes as output
OutSizes == {250000, 750000}
\* what the simulated progress of the interval can report: min(90, 25 + random*65)
ProgressSamples == {25, 90}

(***************************************************************************)
(* The compression pipeline: CompressionEngine.                            *)
(***************************************************************************)
VARIABLES
    isCompressing,     \* CompressionEngine.isCompressing
    isInitialized,     \* CompressionEngine.isInitialized
    ffmpeg,            \* CompressionEngine.ffmpeg: 0 is null, j the instance job j created
    progressCallback,  \* CompressionEngine.progressCallback: 0 is undefined, j the callback of job j
    jobs,              \* per compress() call: where it is suspended and what it has seen
    terminated,        \* the FFmpeg instances terminate() was called on
    browserOk,         \* SharedArrayBuffer, WebAssembly and fetch all exist
    nextJob            \* the next compress() call

engineVars == <<isCompressing, isInitialized, ffmpeg, progressCallback, jobs,
                terminated, browserOk, nextJob>>

(***************************************************************************)
(* The ScreenRecorder component, as far as its stop handler goes.          *)
(***************************************************************************)
VARIABLES
    isProcessing,      \* useState
    useCompression,    \* useState: the compression switch
    recordedVideo,     \* useState: the artifact kept for preview and download
    handler            \* handleStopRecording: where it is suspended, what it awaits

appVars == <<isProcessing, useCompression, recordedVideo, handler>>

(***************************************************************************)
(* Calls of the helpers that keep no state: the last call and its result.  *)
(***************************************************************************)
VARIABLES
    called,            \* the helper called last, with its arguments
    returned           \* what that call returned

utilVars == <<called, returned>>

(***************************************************************************)
(* The state of the capture session controller and of the browser objects  *)
(* it drives.                                                              *)
(***************************************************************************)
VARIABLES
    recordingState,    \* useState: 'inactive' | 'recording' | 'paused' | 'stopped'
    duration,          \* useState: the elapsed time the hook reports, in ms
    error,             \* useState: the last error, "none" for null
    mediaRecorderRef,  \* 0 is null, k the recorder startRecording call k made
    streamRef,         \* the owned stream: [id, roles], id 0 for null
    chunksRef,         \* the buffered segments
    startTimeRef,      \* 0 is null
    timerRef,          \* 0 is null, else the id of an interval
    starts,            \* per startRecording() call: where it is suspended, its options
    recorders,         \* per MediaRecorder: state, handlers, queued events
    tracks,            \* per session and role: "none", "live", "ended" (by the source) or "stopped"
    timers,            \* the armed intervals: [id, due]
    now,               \* Date.now()
    isTypeSupported,   \* the types MediaRecorder.isTypeSupported accepts
    stopCalls,         \* per recorder: the promise of the stopRecording() it accepted
    stopRefused,       \* the last startRecording or stopRecording call was a stop that rejected at once
    nextStart,         \* the next startRecording() call
    recordedMs,        \* time spent with recordingState 'recording' since onstart
    isMuted,           \* useState
    enabled,           \* per session and role: MediaStreamTrack.enabled
    endedQueue,        \* the sessions whose video track has an 'ended' event queued
    releases           \* per session: how often cleanup() stopped the tracks of its stream

hookVars == <<recordingState, duration, error, mediaRecorderRef, streamRef, chunksRef,
              startTimeRef, timerRef, isMuted>>
browserVars == <<recorders, tracks, timers, now, isTypeSupported, enabled, endedQueue>>
traceVars == <<starts, stopCalls, stopRefused, nextStart, recordedMs, releases>>
recorderVars == <<hookVars, browserVars, traceVars>>

\* a Blob: who made it (by: "caller" or "ffmpeg", id: the call), its size and type
NoBlob == [by |-> "", id |-> 0, size |-> 0, type |-> ""]

\* the artifact given to compress() call j
InputBlob(j, size, type) == [by |-> "caller", id |-> j, size |-> size, type |-> type]

\* new Blob([blobData], {type: 'video/webm'}) built from the engine's output file
OutputBlob(j, size) == [by |-> "ffmpeg", id |-> j, size |-> size, type |-> "video/webm"]

\* videoBlob.type.includes('vp9')
HasVP9(type) ==
    type \in {"video/webm;codecs=vp9,opus", "video/webm;codecs=vp9", "video/mp4;codecs=vp9,opus"}
\* videoBlob.type.includes('opus')
HasOpus(type) ==
    type \in {"video/webm;codecs=vp9,opus", "video/webm;codecs=vp8,opus",
              "video/mp4;codecs=vp9,opus"}

NoResult == [blob |-> NoBlob, originalSize |-> 0, compressedSize |-> 0, compressionRatio |-> 0]

\* a compress() call that has not been made yet
NewJob ==
    [pc |-> "new",            \* where the call is suspended, or how it settled
     blob |-> NoBlob,         \* videoBlob
     strategy |-> "none",     \* compressionStrategy
     inst |-> 0,              \* the FFmpeg instance the awaited command was issued on
     interval |-> FALSE,      \* progressInterval is armed
     execInst |-> 0,          \* the instance still executing the strategy's exec (0: none)
     loaded |-> FALSE,        \* load() of the instance this call created has resolved
     fallbacks |-> 0,         \* basic transcodes started
     progress |-> -1,         \* last value delivered to onProgress (-1: none)
     stage |-> "",            \* last stage delivered to onProgress
     outSize |-> 0,           \* size of the data readFile returned
     error |-> "",            \* why the promise rejected
     result |-> NoResult,     \* what the promise resolved with
     alone |-> FALSE,         \* no other call was live when this one was made
     allFailed |-> FALSE,     \* every encoding attempt of the call has failed
     endProgress |-> -1,      \* progress and stage as they were when the call settled
     endStage |-> ""]

\* the pipeline object as one value, for the operators that transform it
Engine ==
    [isCompressing |-> isCompressing, isInitialized |-> isInitialized,
     ffmpeg |-> ffmpeg, progressCallback |-> progressCallback,
     jobs |-> jobs, terminated |-> terminated]

SetEngine(e) ==
    /\ isCompressing' = e.isCompressing
    /\ isInitialized' = e.isInitialized
    /\ ffmpeg' = e.ffmpeg
    /\ progressCallback' = e.progressCallback
    /\ jobs' = e.jobs
    /\ terminated' = e.terminated

\* a job that is suspended in an await
Suspended == {"load", "version", "fetch", "write", "exec", "basic", "read", "del1", "del2"}
\* a job that compress() accepted and that has not settled
Live(j) == jobs[j].pc \in Suspended
\* refused: thrown before the try block; rejected: thrown from inside it
Settled(j) == jobs[j].pc \in {"resolved", "rejected"}

\* this.progressCallback?.({progress, stage})
Progress(e, p, s) ==
    IF e.progressCallback = 0 THEN e
    ELSE [e EXCEPT !.jobs[e.progressCallback].progress = p,
                   !.jobs[e.progressCallback].stage = s]

\* this.ffmpeg.terminate(); this.ffmpeg = null
Terminate(e) ==
    IF e.ffmpeg = 0 THEN e
    ELSE [e EXCEPT !.terminated = @ \cup {e.ffmpeg}, !.ffmpeg = 0]

\* CompressionEngine.cleanup
CleanupEngine(e) ==
    [Terminate(e) EXCEPT !.isCompressing = FALSE, !.isInitialized = FALSE,
                         !.progressCallback = 0]

\* compress: catch (rethrow as 'Video compression failed') and finally
Reject(e, j, why) ==
    [e EXCEPT !.jobs[j].pc = "rejected", !.jobs[j].error = why,
              !.jobs[j].inst = 0,
              !.jobs[j].endProgress = e.jobs[j].progress,
              !.jobs[j].endStage = e.jobs[j].stage,
              !.isCompressing = FALSE]

\* ((originalSize - compressedSize) / originalSize) * 100
CompressionRatio(originalSize, compressedSize) ==
    ((originalSize - compressedSize) * 100) \div originalSize

\* a compress() that returns its result without the finally block
ResolveNoFinally(e, j, out) ==
    [e EXCEPT !.jobs[j].pc = "resolved",
              !.jobs[j].inst = 0,
              !.jobs[j].endProgress = e.jobs[j].progress,
              !.jobs[j].endStage = e.jobs[j].stage,
              !.jobs[j].result =
                  [blob |-> out,
                   originalSize |-> e.jobs[j].blob.size,
                   compressedSize |-> out.size,
                   compressionRatio |-> CompressionRatio(e.jobs[j].blob.size, out.size)]]

\* compress: the result built from the blob performCompression returned, and finally
Resolve(e, j, out) ==
    [e EXCEPT !.jobs[j].pc = "resolved",
              !.jobs[j].inst = 0,
              !.jobs[j].endProgress = e.jobs[j].progress,
              !.jobs[j].endStage = e.jobs[j].stage,
              !.jobs[j].result =
                  [blob |-> out,
                   originalSize |-> e.jobs[j].blob.size,
                   compressedSize |-> out.size,
                   compressionRatio |-> CompressionRatio(e.jobs[j].blob.size, out.size)],
              !.isCompressing = FALSE]

\* await this.ffmpeg.<command>(...): a null handle throws a TypeError on the spot
Await(e, j, where, onNull) ==
    IF e.ffmpeg = 0 THEN onNull
    ELSE [e EXCEPT !.jobs[j].pc = where, !.jobs[j].inst = e.ffmpeg]

\* initializeFFmpeg: the catch block, then compress's catch and finally
InitFailed(e, j) == Reject(CleanupEngine(e), j, "FFmpeg initialization failed")

\* performCompression up to its first await (fetchFile)
PerformStart(e, j) ==
    IF e.ffmpeg = 0 \/ ~e.isInitialized
    THEN Reject(e, j, "FFmpeg not initialized")
    ELSE [Progress(e, 15, "Preparing video for compression...")
            EXCEPT !.jobs[j].pc = "fetch", !.jobs[j].inst = 0]

\* performCompression: outer catch, rethrown through compress
PerformFailed(e, j, why) == Reject(e, j, why)

\* performCompression: hasVP9 && hasOpus chooses copy mode, anything else transcoding
\* a selection that looks at the video codec only
StrategyByVideoCodec(blob) ==
    IF HasVP9(blob.type) THEN "copy-mode" ELSE "transcode-mode"

Strategy(blob) ==
    IF HasVP9(blob.type) /\ HasOpus(blob.type) THEN "copy-mode" ELSE "transcode-mode"

\* the arguments of copy mode
CopyArgs == <<"-c:v", "copy", "-c:a", "copy", "-movflags", "+faststart">>

\* getCompressionArgs: the presets
Presets ==
    [quality \in {"high", "balanced", "compressed"} |->
        CASE quality = "high" ->
                <<"-c:v", "libvpx", "-crf", "10", "-b:v", "2M", "-c:a", "libvorbis",
                  "-b:a", "128k", "-deadline", "good">>
          [] quality = "balanced" ->
                <<"-c:v", "libvpx", "-crf", "20", "-b:v", "1M", "-c:a", "libvorbis",
                  "-b:a", "96k", "-deadline", "good">>
          [] quality = "compressed" ->
                <<"-c:v", "libvpx", "-crf", "30", "-b:v", "500k", "-c:a", "libvorbis",
                  "-b:a", "64k", "-deadline", "realtime">>]

\* getCompressionArgs(settings): presets[quality] || presets.balanced
GetCompressionArgs(quality) ==
    IF quality \in DOMAIN Presets THEN Presets[quality] ELSE Presets["balanced"]

\* performCompression: compressionStrategy and compressionArgs for a blob
SelectStrategy(blob, quality) ==
    [strategy |-> Strategy(blob),
     args |-> IF Strategy(blob) = "copy-mode" THEN CopyArgs ELSE GetCompressionArgs(quality)]

\* the types of the artifacts whose strategy is selected
MimeTypes == {b[2] : b \in BlobInputs} \cup {"video/mp4;codecs=vp9,opus"}

\* the quality names asked for: the three presets and one that is none
Qualities == {"high", "balanced", "compressed", "ultra"}

\* the stage reported at progress 25
StartStage(strategy) ==
    IF strategy = "copy-mode" THEN "Optimizing video structure..."
    ELSE "Starting video compression..."

\* the stage the progress interval reports
TickStage(strategy) ==
    IF strategy = "copy-mode" THEN "Optimizing video structure..."
    ELSE "Processing video..."

FailedStage == "Compression failed, using original video"
CompleteStage == "Compression complete!"

\* initializeFFmpeg up to await this.ffmpeg.load()
InitStart(e, j) ==
    LET e1 == Progress(e, 0, "Initializing FFmpeg...") IN
    IF ~browserOk THEN InitFailed(e1, j)
    ELSE [e1 EXCEPT !.ffmpeg = j, !.jobs[j].pc = "load", !.jobs[j].inst = j]

\* initializeFFmpeg after the version test, then performCompression
AfterVersion(e, j) == PerformStart(Progress(e, 10, "FFmpeg ready"), j)

\* performCompression: catch (basicError) of the basic transcode
BasicFailed(e, j) ==
    PerformFailed([e EXCEPT !.jobs[j].allFailed = TRUE], j, "All compression methods failed")

\* performCompression: catch (execError) of the chosen strategy
ExecFailed(e, j) ==
    IF e.jobs[j].strategy = "copy-mode"
    THEN Await([e EXCEPT !.jobs[j].fallbacks = IF e.ffmpeg = 0 THEN @ ELSE @ + 1],
               j, "basic", BasicFailed(e, j))
    ELSE Resolve(Progress([e EXCEPT !.jobs[j].allFailed = TRUE], 100, FailedStage),
                 j, e.jobs[j].blob)

\* performCompression after a strategy succeeded, up to await readFile
AfterEncode(e, j) ==
    LET e1 == Progress(e, 90, "Finalizing compressed video...") IN
    Await(e1, j, "read", PerformFailed(e1, j, "TypeError"))

\* performCompression after writeFile: strategy choice, timers, exec
StartStrategy(e, j) ==
    LET strategy == Strategy(e.jobs[j].blob)
        e1 == Progress([e EXCEPT !.jobs[j].strategy = strategy], 25, StartStage(strategy))
        e2 == [e1 EXCEPT !.jobs[j].interval = TRUE]
    IN  IF e2.ffmpeg = 0 THEN ExecFailed(e2, j)
        ELSE [e2 EXCEPT !.jobs[j].pc = "exec", !.jobs[j].inst = e2.ffmpeg,
                        !.jobs[j].execInst = e2.ffmpeg]

\* a command awaited on instance inst can still complete normally: the
\* instance was not terminated and, for a command other than load(), is loaded
CanResolve(j) ==
    /\ jobs[j].inst \notin terminated
    /\ jobs[j].pc # "load" => jobs[jobs[j].inst].loaded

\* compress() without the isCompressing guard of its first lines
CompressUnguarded(e, j, videoBlob) ==
    LET e0 == [e EXCEPT !.jobs[j].blob = videoBlob,
                        !.jobs[j].alone = \A k \in Jobs : e.jobs[k].pc \notin Suspended]
    IN  IF videoBlob.size = 0
        THEN [e0 EXCEPT !.jobs[j].pc = "refused",
                        !.jobs[j].error = "Invalid video blob provided"]
        ELSE LET e1 == [e0 EXCEPT !.isCompressing = TRUE, !.progressCallback = j]
             IN  IF ~e1.isInitialized THEN InitStart(e1, j) ELSE PerformStart(e1, j)

\* compress(videoBlob, settings, onProgress) up to its first await, as call j
CompressCall(e, j, videoBlob) ==
    LET e0 == [e EXCEPT !.jobs[j].blob = videoBlob,
                        !.jobs[j].alone = \A k \in Jobs : e.jobs[k].pc \notin Suspended]
    IN  IF e.isCompressing
        THEN [e0 EXCEPT !.jobs[j].pc = "refused",
                        !.jobs[j].error = "Compression already in progress"]
        ELSE IF videoBlob.size = 0
        THEN [e0 EXCEPT !.jobs[j].pc = "refused",
                        !.jobs[j].error = "Invalid video blob provided"]
        ELSE LET e1 == [e0 EXCEPT !.isCompressing = TRUE, !.progressCallback = j]
             IN  IF ~e1.isInitialized THEN InitStart(e1, j) ELSE PerformStart(e1, j)

----
\* compress() called by any caller
Compress(videoBlob) ==
    /\ nextJob \in Jobs
    /\ nextJob' = nextJob + 1
    /\ SetEngine(CompressCall(Engine, nextJob, videoBlob))
    /\ UNCHANGED <<browserOk, recorderVars, appVars, utilVars>>

\* cancel()
Cancel ==
    /\ SetEngine([Terminate(Engine) EXCEPT !.isCompressing = FALSE,
                                           !.isInitialized = FALSE])
    /\ UNCHANGED <<browserOk, nextJob, recorderVars, appVars, utilVars>>

\* await this.ffmpeg.load() returned
LoadResolve(j) ==
    /\ jobs[j].pc = "load" /\ CanResolve(j)
    /\ LET e1 == [Engine EXCEPT !.isInitialized = TRUE, !.jobs[jobs[j].inst].loaded = TRUE]
       IN  SetEngine(Await(e1, j, "version", AfterVersion(e1, j)))
    /\ UNCHANGED <<browserOk, nextJob, recorderVars, appVars, utilVars>>

\* await this.ffmpeg.load() threw
LoadReject(j) ==
    /\ jobs[j].pc = "load"
    /\ SetEngine(InitFailed(Engine, j))
    /\ UNCHANGED <<browserOk, nextJob, recorderVars, appVars, utilVars>>

\* await this.ffmpeg.exec(['-version']) returned or threw: the test is only logged
VersionSettle(j) ==
    /\ jobs[j].pc = "version"
    /\ SetEngine(AfterVersion(Engine, j))
    /\ UNCHANGED <<browserOk, nextJob, recorderVars, appVars, utilVars>>

\* await fetchFile(videoBlob) returned
FetchResolve(j) ==
    /\ jobs[j].pc = "fetch"
    /\ SetEngine(Await(Engine, j, "write",
                       PerformFailed(Engine, j, "Failed to write input file")))
    /\ UNCHANGED <<browserOk, nextJob, recorderVars, appVars, utilVars>>

\* await fetchFile(videoBlob) threw
FetchReject(j) ==
    /\ jobs[j].pc = "fetch"
    /\ SetEngine(PerformFailed(Engine, j, "Failed to write input file"))
    /\ UNCHANGED <<browserOk, nextJob, recorderVars, appVars, utilVars>>

\* await this.ffmpeg.writeFile(...) returned
WriteResolve(j) ==
    /\ jobs[j].pc = "write" /\ CanResolve(j)
    /\ SetEngine(StartStrategy(Engine, j))
    /\ UNCHANGED <<browserOk, nextJob, recorderVars, appVars, utilVars>>

\* await this.ffmpeg.writeFile(...) threw
WriteReject(j) ==
    /\ jobs[j].pc = "write"
    /\ SetEngine(PerformFailed(Engine, j, "Failed to write input file"))
    /\ UNCHANGED <<browserOk, nextJob, recorderVars, appVars, utilVars>>

\* Promise.race: the strategy's exec returned first
ExecResolve(j) ==
    /\ jobs[j].pc = "exec" /\ CanResolve(j)
    /\ SetEngine(AfterEncode([Engine EXCEPT !.jobs[j].interval = FALSE,
                                            !.jobs[j].execInst = 0], j))
    /\ UNCHANGED <<browserOk, nextJob, recorderVars, appVars, utilVars>>

\* Promise.race: the strategy's exec threw first
ExecReject(j) ==
    /\ jobs[j].pc = "exec"
    /\ SetEngine(ExecFailed([Engine EXCEPT !.jobs[j].execInst = 0], j))
    /\ UNCHANGED <<browserOk, nextJob, recorderVars, appVars, utilVars>>

\* Promise.race: the TIMEOUT_MS timer rejected first; the exec is left running
Timeout(j) ==
    /\ jobs[j].pc = "exec"
    /\ SetEngine(ExecFailed(Engine, j))
    /\ UNCHANGED <<browserOk, nextJob, recorderVars, appVars, utilVars>>

\* the exec that lost the race settles in the engine
ExecLate(j) ==
    /\ jobs[j].pc # "exec" /\ jobs[j].execInst # 0
    /\ SetEngine([Engine EXCEPT !.jobs[j].execInst = 0])
    /\ UNCHANGED <<browserOk, nextJob, recorderVars, appVars, utilVars>>

\* await this.ffmpeg.exec(basicArgs) returned
BasicResolve(j) ==
    /\ jobs[j].pc = "basic" /\ CanResolve(j)
    /\ SetEngine(AfterEncode(Engine, j))
    /\ UNCHANGED <<browserOk, nextJob, recorderVars, appVars, utilVars>>

\* await this.ffmpeg.exec(basicArgs) threw
BasicReject(j) ==
    /\ jobs[j].pc = "basic"
    /\ SetEngine(BasicFailed(Engine, j))
    /\ UNCHANGED <<browserOk, nextJob, recorderVars, appVars, utilVars>>

\* await this.ffmpeg.readFile(outputFileName) returned size bytes
ReadResolve(j, size) ==
    /\ jobs[j].pc = "read" /\ CanResolve(j)
    /\ LET e1 == [Engine EXCEPT !.jobs[j].outSize = size]
       IN  SetEngine(Await(e1, j, "del1", PerformFailed(e1, j, "TypeError")))
    /\ UNCHANGED <<browserOk, nextJob, recorderVars, appVars, utilVars>>

\* await this.ffmpeg.deleteFile(inputFileName) returned
Del1Resolve(j) ==
    /\ jobs[j].pc = "del1" /\ CanResolve(j)
    /\ SetEngine(Await(Engine, j, "del2", PerformFailed(Engine, j, "TypeError")))
    /\ UNCHANGED <<browserOk, nextJob, recorderVars, appVars, utilVars>>

\* await this.ffmpeg.deleteFile(outputFileName) returned: the result is built
Del2Resolve(j) ==
    /\ jobs[j].pc = "del2" /\ CanResolve(j)
    /\ SetEngine(Resolve(Progress(Engine, 100, CompleteStage), j,
                         OutputBlob(j, jobs[j].outSize)))
    /\ UNCHANGED <<browserOk, nextJob, recorderVars, appVars, utilVars>>

\* readFile or deleteFile threw
FinalizeReject(j) ==
    /\ jobs[j].pc \in {"read", "del1", "del2"}
    /\ SetEngine(PerformFailed(Engine, j, "engine command failed"))
    /\ UNCHANGED <<browserOk, nextJob, recorderVars, appVars, utilVars>>

\* the progressInterval of job j fires
IntervalTick(j, v) ==
    /\ jobs[j].interval
    /\ SetEngine(Progress(Engine, v, TickStage(jobs[j].strategy)))
    /\ UNCHANGED <<browserOk, nextJob, recorderVars, appVars, utilVars>>

\* the pipeline before its first call
EngineIdle ==
    /\ isCompressing = FALSE
    /\ isInitialized = FALSE
    /\ ffmpeg = 0
    /\ progressCallback = 0
    /\ jobs = [j \in Jobs |-> NewJob]
    /\ terminated = {}
    /\ nextJob = 1

\* the commands the calls await settle, and their timers fire
EngineEvents ==
    \E j \in Jobs :
        \/ LoadResolve(j) \/ LoadReject(j) \/ VersionSettle(j)
        \/ FetchResolve(j) \/ FetchReject(j)
        \/ WriteResolve(j) \/ WriteReject(j)
        \/ ExecResolve(j) \/ ExecReject(j) \/ Timeout(j) \/ ExecLate(j)
        \/ BasicResolve(j) \/ BasicReject(j)
        \/ \E size \in OutSizes : ReadResolve(j, size)
        \/ Del1Resolve(j) \/ Del2Resolve(j) \/ FinalizeReject(j)
        \/ \E v \in ProgressSamples : IntervalTick(j, v)

EngineNext ==
    \/ nextJob <= MaxJobs /\ \E b \in BlobInputs : Compress(InputBlob(nextJob, b[1], b[2]))
    \/ Cancel
    \/ EngineEvents

\* the artifact of the calls that are followed through cancel()
CancelBlob == <<500000, "video/webm;codecs=vp8,opus">>

\* the commands a call awaits on its way to the encoder's output
CancelEvents ==
    \E j \in Jobs :
        \/ LoadResolve(j) \/ LoadReject(j) \/ VersionSettle(j)
        \/ FetchResolve(j)
        \/ WriteResolve(j) \/ WriteReject(j)
        \/ ExecResolve(j) \/ ExecReject(j)
        \/ ReadResolve(j, 250000)
        \/ Del1Resolve(j) \/ Del2Resolve(j)

\* calls of one artifact, cancel() at any moment, and the commands settling
CancelNext ==
    \/ Compress(InputBlob(nextJob, CancelBlob[1], CancelBlob[2]))
    \/ Cancel
    \/ CancelEvents


(***************************************************************************)
(* The capture session controller: useScreenRecording, and the browser     *)
(* objects it drives (MediaRecorder, MediaStream tracks, interval timers). *)
(***************************************************************************)
\* startRecording() calls made in one behaviour
MaxStarts == 2
\* steps the clock makes in one behaviour
MaxTicks == 2
\* non-empty segments one recorder delivers
MaxChunks == 1
\* milliseconds the clock advances in one step
StepMs == 2000
\* the period of the duration timer: setInterval(updateTimer, 1000)
TimerPeriodMs == 1000
\* bytes of a non-empty segment
ChunkBytes == 250000

Sessions == 1..MaxStarts

\* the tracks a session can hold: the display's video and audio tracks, the
\* microphone's track and the track of the mixing graph's destination
Roles == {"video", "audio", "mic", "mixed"}

\* options.audio: a boolean (obj FALSE, the value in system) or an object
AudioBool(b) == [obj |-> FALSE, system |-> b, microphone |-> FALSE]
AudioObj(system, microphone) == [obj |-> TRUE, system |-> system, microphone |-> microphone]

\* the options startRecording is called with
StartOptions ==
    {[video |-> TRUE, audio |-> AudioBool(TRUE)],
     [video |-> TRUE, audio |-> AudioObj(TRUE, TRUE)],
     [video |-> TRUE, audio |-> AudioBool(FALSE)],
     [video |-> FALSE, audio |-> AudioBool(FALSE)],
     [video |-> FALSE, audio |-> AudioObj(FALSE, FALSE)]}

\* what getDisplayMedia can fail with when the user or the system refuses
DisplayErrors == {"NotAllowedError", "NotFoundError"}

\* what getDisplayMedia can fail with, given the options: without video it
\* rejects with a TypeError
DisplayFailures(options) == IF options.video THEN DisplayErrors ELSE {"TypeError"}

\* the fixed preference list of startRecording
supportedTypes ==
    <<"video/webm;codecs=vp9", "video/webm;codecs=vp8", "video/webm", "video/mp4">>

\* the sets of types MediaRecorder.isTypeSupported can accept in one browser
Browsers ==
    {{}, {"video/webm", "video/mp4"},
     {"video/webm;codecs=vp9", "video/webm;codecs=vp8", "video/webm", "video/mp4"}}


(***************************************************************************)
(* The error classifier: RecordingErrorHandler.  An error is named by its  *)
(* cause; RawError gives what the classifier sees of it: whether it is a   *)
(* DOMException, its name, and the words of its message in lower case.     *)
(***************************************************************************)
NoFormatMessage == "No supported video format found"
NothingEnabledMessage == "At least one of video or audio must be enabled"

RawError(cause) ==
    CASE cause \in {"NotAllowedError", "NotFoundError", "NotSupportedError",
                    "InvalidStateError"} ->
            [dom |-> TRUE, name |-> cause, words |-> <<>>]
      [] cause = NoFormatMessage ->
            [dom |-> FALSE, name |-> "Error",
             words |-> <<"no", "supported", "video", "format", "found", "please", "use",
                         "a", "modern", "browser">>]
      [] cause = NothingEnabledMessage ->
            [dom |-> FALSE, name |-> "Error",
             words |-> <<"at", "least", "one", "of", "video", "or", "audio", "must", "be",
                         "enabled">>]
      [] cause = "Recording failed" ->
            [dom |-> FALSE, name |-> "Error", words |-> <<"recording", "failed">>]
      [] cause = "TypeError" ->
            [dom |-> FALSE, name |-> "TypeError",
             words |-> <<"failed", "to", "execute", "getdisplaymedia">>]

\* message.includes(word), on the words of the message
Includes(words, word) == \E i \in DOMAIN words : words[i] = word

\* handleDOMException: the switch on error.name
HandleDOMException(name) ==
    CASE name = "NotAllowedError" -> [type |-> "PERMISSION_DENIED", recoverable |-> TRUE]
      [] name = "NotSupportedError" -> [type |-> "NOT_SUPPORTED", recoverable |-> FALSE]
      [] name = "NotFoundError" -> [type |-> "NO_DEVICES", recoverable |-> TRUE]
      [] name = "AbortError" -> [type |-> "STREAM_ENDED", recoverable |-> TRUE]
      [] name = "NotReadableError" -> [type |-> "RECORDING_FAILED", recoverable |-> TRUE]
      [] name = "OverconstrainedError" -> [type |-> "RECORDING_FAILED", recoverable |-> TRUE]
      [] OTHER -> [type |-> "RECORDING_FAILED", recoverable |-> TRUE]

\* handleGenericError: the tests on the lower-cased message, in order
HandleGenericError(words) ==
    IF Includes(words, "compression") \/ Includes(words, "ffmpeg")
    THEN [type |-> "COMPRESSION_FAILED", recoverable |-> TRUE]
    ELSE IF Includes(words, "download") \/ Includes(words, "blob")
    THEN [type |-> "DOWNLOAD_FAILED", recoverable |-> TRUE]
    ELSE IF Includes(words, "permission") \/ Includes(words, "access")
    THEN [type |-> "PERMISSION_DENIED", recoverable |-> TRUE]
    ELSE IF Includes(words, "network") \/ Includes(words, "fetch")
    THEN [type |-> "RECORDING_FAILED", recoverable |-> TRUE]
    ELSE [type |-> "RECORDING_FAILED", recoverable |-> TRUE]

\* String.toLowerCase, word by word
ToLowerCase(words) ==
    [i \in DOMAIN words |-> CASE words[i] = "FFmpeg" -> "ffmpeg"
                               [] words[i] = "Blob" -> "blob"
                               [] words[i] = "Permission" -> "permission"
                               [] OTHER -> words[i]]

\* RecordingErrorHandler.handleError: e.dom is `error instanceof DOMException`,
\* e.name # "" is `error instanceof Error`
HandleErrorOf(e) ==
    IF e.dom THEN HandleDOMException(e.name)
    ELSE IF e.name # "" THEN HandleGenericError(ToLowerCase(e.words))
    ELSE [type |-> "UNKNOWN", recoverable |-> FALSE]

\* RecordingErrorHandler.handleError, for the error with the given cause
HandleError(cause) == HandleErrorOf(RawError(cause))

\* RecordingErrorHandler.createError(type, message) with no options
CreateError(type) == [type |-> type, recoverable |-> FALSE]

\* RecordingErrorType
RecordingErrorTypes ==
    {"PERMISSION_DENIED", "NOT_SUPPORTED", "NO_DEVICES", "RECORDING_FAILED", "STREAM_ENDED",
     "COMPRESSION_FAILED", "DOWNLOAD_FAILED", "UNKNOWN"}

\* the names handleDOMException knows, and two it does not
DOMExceptionNames ==
    {"NotAllowedError", "NotSupportedError", "NotFoundError", "AbortError", "NotReadableError",
     "OverconstrainedError", "InvalidStateError", "SecurityError"}

\* the words handleGenericError looks for, as they may be spelt, and three
\* it does not look for
Vocabulary ==
    {"compression", "FFmpeg", "download", "Blob", "Permission", "access", "network", "fetch",
     "disk", "full", "quota"}

\* the longest message, in words
MaxWords == 2

Messages == UNION {[1..n -> Vocabulary] : n \in 0..MaxWords}

\* what may be thrown: a value that is no Error (undefined, a string), a
\* DOMException, an Error
Thrown ==
    {[dom |-> FALSE, name |-> "", words |-> <<>>]}
        \cup {[dom |-> TRUE, name |-> n, words |-> <<>>] : n \in DOMExceptionNames}
        \cup {[dom |-> FALSE, name |-> "Error", words |-> m] : m \in Messages}

\* RecordingErrorHandler.handleError(e)
HandleErrorCall(e) ==
    /\ called' = [fn |-> "handleError", error |-> e]
    /\ returned' = HandleErrorOf(e)
    /\ UNCHANGED <<engineVars, recorderVars, appVars>>

\* RecordingErrorHandler.createError(type, message)
CreateErrorCall(type) ==
    /\ called' = [fn |-> "createError", type |-> type]
    /\ returned' = CreateError(type)
    /\ UNCHANGED <<engineVars, recorderVars, appVars>>

\* QualityPreset
QualityPresets == {"high", "balanced", "compressed"}

\* QUALITY_PRESETS, without the descriptions
QUALITY_PRESETS ==
    [preset \in QualityPresets |->
        CASE preset = "high" ->
                [videoBitsPerSecond |-> 8000000, audioBitsPerSecond |-> 192000,
                 frameRate |-> 60, width |-> 1920, height |-> 1080]
          [] preset = "balanced" ->
                [videoBitsPerSecond |-> 4000000, audioBitsPerSecond |-> 128000,
                 frameRate |-> 30, width |-> 1280, height |-> 720]
          [] preset = "compressed" ->
                [videoBitsPerSecond |-> 2000000, audioBitsPerSecond |-> 96000,
                 frameRate |-> 24, width |-> 854, height |-> 480]]

\* a lookup that answers with the default preset's row
GetDefaultQualityConfig(preset) == QUALITY_PRESETS["balanced"]

\* getQualityConfig(preset)
GetQualityConfig(preset) == QUALITY_PRESETS[preset]

\* the strategy selection of performCompression, for a blob of the type
SelectStrategyCall(type, quality) ==
    /\ called' = [fn |-> "selectStrategy", mime |-> type, quality |-> quality]
    /\ returned' = SelectStrategy([type |-> type], quality)
    /\ UNCHANGED <<engineVars, recorderVars, appVars>>

\* getQualityConfig(preset), called
GetQualityConfigCall(preset) ==
    /\ called' = [fn |-> "getQualityConfig", preset |-> preset]
    /\ returned' = GetQualityConfig(preset)
    /\ UNCHANGED <<engineVars, recorderVars, appVars>>

\* the options ask for the screen or for some audio source
Requests(options) == options.video \/ options.audio.system \/ options.audio.microphone

NoStream == [id |-> 0, roles |-> {}]

\* a MediaStream holding the given tracks of session k
Stream(k, roles) == [id |-> k, roles |-> roles]

NoRecorder ==
    [state |-> "none",      \* MediaRecorder.state, "none" before construction
     onstop |-> "none",     \* which onstop handler is installed: "start" or "stop"
     pending |-> <<>>,      \* events queued for the recorder, oldest first
     mimeType |-> "",       \* MediaRecorder.mimeType
     stream |-> NoStream,   \* the stream it records
     produced |-> 0]        \* non-empty segments delivered so far

NoStart == [pc |-> "new", options |-> [video |-> FALSE, audio |-> AudioBool(FALSE)],
            stream |-> NoStream]

\* awaited: the promise stopRecording() returned is held by its caller
NoStop == [status |-> "none", blob |-> NoBlob, awaited |-> FALSE]

\* for (const type of supportedTypes) if (MediaRecorder.isTypeSupported(type)) ...
RECURSIVE FirstSupported(_, _)
FirstSupported(types, accepted) ==
    IF types = <<>> THEN ""
    ELSE IF Head(types) \in accepted THEN Head(types)
    ELSE FirstSupported(Tail(types), accepted)

\* what MediaRecorder.mimeType can read for a recorder made with type: the
\* type as given, or with the audio codec the browser chose added
ReportedTypes(type, hasAudio) ==
    {type} \cup (IF type = "video/webm;codecs=vp9" /\ hasAudio
                 THEN {"video/webm;codecs=vp9,opus"} ELSE {})

\* the tracks of stream st that are still live
LiveTracks(st) == {r \in st.roles : st.id # 0 /\ tracks[st.id][r] = "live"}

\* every live track of session k, owned or not
LiveOfSession(k) == {r \in Roles : tracks[k][r] = "live"}


\* the controller and its browser objects as one value, for the operators
\* that transform it
World ==
    [recordingState |-> recordingState, duration |-> duration, error |-> error,
     mediaRecorderRef |-> mediaRecorderRef, streamRef |-> streamRef,
     chunksRef |-> chunksRef, startTimeRef |-> startTimeRef, timerRef |-> timerRef,
     starts |-> starts, recorders |-> recorders, tracks |-> tracks, timers |-> timers,
     stopCalls |-> stopCalls, recordedMs |-> recordedMs,
     isMuted |-> isMuted, enabled |-> enabled, endedQueue |-> endedQueue,
     releases |-> releases]

SetWorld(w) ==
    /\ recordingState' = w.recordingState
    /\ duration' = w.duration
    /\ error' = w.error
    /\ mediaRecorderRef' = w.mediaRecorderRef
    /\ streamRef' = w.streamRef
    /\ chunksRef' = w.chunksRef
    /\ startTimeRef' = w.startTimeRef
    /\ timerRef' = w.timerRef
    /\ starts' = w.starts
    /\ recorders' = w.recorders
    /\ tracks' = w.tracks
    /\ timers' = w.timers
    /\ stopCalls' = w.stopCalls
    /\ recordedMs' = w.recordedMs
    /\ isMuted' = w.isMuted
    /\ enabled' = w.enabled
    /\ endedQueue' = w.endedQueue
    /\ releases' = w.releases

\* if (timerRef.current) { clearInterval(timerRef.current); timerRef.current = null }
ClearTimer(w) ==
    IF w.timerRef = 0 THEN w
    ELSE [w EXCEPT !.timers = {t \in @ : t.id # w.timerRef}, !.timerRef = 0]

\* timerRef.current = setInterval(updateTimer, 1000): the id is the least one free
SetTimer(w) ==
    LET used == {t.id : t \in w.timers}
        id == CHOOSE i \in 1..(Cardinality(used) + 1) :
                  i \notin used /\ \A h \in 1..(i - 1) : h \in used
    IN  [w EXCEPT !.timers = @ \cup {[id |-> id, due |-> now + TimerPeriodMs]},
                  !.timerRef = id]

\* streamRef.current.getTracks().forEach(track => track.stop()); a track the
\* source has ended stays "ended"
StopTracks(w) ==
    IF w.streamRef.id = 0 THEN w
    ELSE [w EXCEPT !.tracks[w.streamRef.id] =
              [r \in Roles |-> IF r \in w.streamRef.roles /\ @[r] = "live"
                               THEN "stopped" ELSE @[r]],
                   !.releases[w.streamRef.id] = @ + 1]

\* cleanup() of the hook
Cleanup(w) ==
    [StopTracks(ClearTimer(w)) EXCEPT
        !.streamRef = NoStream,
        !.recordingState = "inactive",
        !.duration = 0,
        !.startTimeRef = 0,
        !.chunksRef = <<>>,
        !.mediaRecorderRef = 0]

\* startRecording: the catch block
StartFailed(w, k, cause) ==
    [w EXCEPT !.error = cause, !.recordingState = "inactive",
              !.starts[k] = [NoStart EXCEPT !.pc = "failed"]]

\* startRecording from streamRef.current = stream to mediaRecorder.start(1000);
\* outcome says whether the constructor or start() throws, reported what
\* MediaRecorder.mimeType reads afterwards
SetUpRecorder(w, k, stream, outcome, reported) ==
    LET w1 == [w EXCEPT !.streamRef = stream, !.chunksRef = <<>>]
        mimeType == FirstSupported(supportedTypes, isTypeSupported)
        w2 == [w1 EXCEPT !.recorders[k] = [NoRecorder EXCEPT !.state = "inactive",
                                                             !.onstop = "start",
                                                             !.mimeType = mimeType,
                                                             !.stream = stream],
                         !.mediaRecorderRef = k]
    IN  IF mimeType = "" THEN StartFailed(w1, k, NoFormatMessage)
        ELSE IF outcome = "construct" THEN StartFailed(w1, k, "NotSupportedError")
        ELSE IF outcome = "start" THEN StartFailed(w2, k, "InvalidStateError")
        ELSE [w2 EXCEPT !.recorders[k].state = "recording",
                        !.recorders[k].pending = <<"start">>,
                        !.recorders[k].mimeType = reported,
                        !.starts[k] = [NoStart EXCEPT !.pc = "done"]]

\* the outcomes SetUpRecorder can have for a stream in this browser
SetUps(stream) ==
    {<<o, t>> \in {"ok", "construct", "start"} \X
                  ReportedTypes(FirstSupported(supportedTypes, isTypeSupported),
                                stream.roles \cap {"audio", "mixed"} # {}) :
        o = "ok" \/ t = FirstSupported(supportedTypes, isTypeSupported)}

\* every outcome of setting a recorder up in this browser
AllSetUps == SetUps(Stream(1, {})) \cup SetUps(Stream(1, {"audio"}))

\* startRecording(options) up to await getDisplayMedia, as call k
StartRecordingCall(w, k, options) ==
    LET w1 == [w EXCEPT !.error = "none", !.duration = 0, !.starts[k].options = options]
    IN  IF ~options.video /\ ~(options.audio.obj \/ options.audio.system)
        THEN StartFailed(w1, k, NothingEnabledMessage)
        ELSE [w1 EXCEPT !.starts[k].pc = "display"]

\* startRecording(options) called by any caller
StartRecording(options) ==
    /\ nextStart <= MaxStarts
    /\ nextStart' = nextStart + 1
    /\ stopRefused' = FALSE
    /\ SetWorld(StartRecordingCall(World, nextStart, options))
    /\ UNCHANGED <<now, isTypeSupported, engineVars, appVars, utilVars>>

\* getDisplayMedia resolved; withAudio: the display shares an audio track
DisplayGranted(k, withAudio, setUp) ==
    LET options == starts[k].options
        roles == {"video"} \cup (IF withAudio THEN {"audio"} ELSE {})
        screen == Stream(k, roles)
        w1 == [World EXCEPT !.tracks[k] = [r \in Roles |-> IF r \in roles THEN "live" ELSE @[r]]]
    IN  /\ starts[k].pc = "display"
        /\ options.video
        /\ withAudio => options.audio.system
        /\ setUp \in SetUps(screen)
        /\ IF options.audio.microphone /\ options.audio.obj
           THEN SetWorld([w1 EXCEPT !.starts[k].pc = "mic", !.starts[k].stream = screen])
           ELSE SetWorld(SetUpRecorder(w1, k, screen, setUp[1], setUp[2]))
        /\ UNCHANGED <<now, isTypeSupported, stopRefused, nextStart, engineVars, appVars, utilVars>>

\* getDisplayMedia rejected
DisplayDenied(k, cause) ==
    /\ starts[k].pc = "display"
    /\ cause \in DisplayFailures(starts[k].options)
    /\ SetWorld(StartFailed(World, k, cause))
    /\ UNCHANGED <<now, isTypeSupported, stopRefused, nextStart, engineVars, appVars, utilVars>>

\* a merge that gives no stream when it fails
GetMixedAudioStreamOrNone(screenStream, mixed) ==
    IF mixed THEN Stream(screenStream.id, {"video", "mixed"}) ELSE NoStream

\* what getMixedAudioStream(screenStream) resolves with; mixed: getUserMedia
\* resolved and the mixing graph was built, so nothing was thrown in the try
GetMixedAudioStream(screenStream, mixed) ==
    IF mixed THEN Stream(screenStream.id, {"video", "mixed"}) ELSE screenStream

\* getMixedAudioStream: getUserMedia resolved; graphOk: the mixing graph was built
MicGranted(k, graphOk, setUp) ==
    LET screen == starts[k].stream
        stream == GetMixedAudioStream(screen, graphOk)
        w1 == [World EXCEPT !.tracks[k].mic = "live",
                            !.tracks[k].mixed = IF graphOk THEN "live" ELSE @]
    IN  /\ starts[k].pc = "mic"
        /\ graphOk => "audio" \in screen.roles
        /\ setUp \in SetUps(stream)
        /\ SetWorld(SetUpRecorder(w1, k, stream, setUp[1], setUp[2]))
        /\ UNCHANGED <<now, isTypeSupported, stopRefused, nextStart, engineVars, appVars, utilVars>>

\* getMixedAudioStream: getUserMedia rejected, the screen stream is returned
MicDenied(k, setUp) ==
    /\ starts[k].pc = "mic"
    /\ setUp \in SetUps(starts[k].stream)
    /\ SetWorld(SetUpRecorder(World, k, GetMixedAudioStream(starts[k].stream, FALSE),
                              setUp[1], setUp[2]))
    /\ UNCHANGED <<now, isTypeSupported, stopRefused, nextStart, engineVars, appVars, utilVars>>


\* the sizes of the parts of a Blob, summed
RECURSIVE TotalSize(_)
TotalSize(parts) == IF parts = <<>> THEN 0 ELSE Head(parts).size + TotalSize(Tail(parts))

\* new Blob(chunksRef.current, {type: mediaRecorder.mimeType || 'video/webm'})
RecordingBlob(k, parts, mimeType) ==
    [by |-> "recorder", id |-> k, size |-> TotalSize(parts),
     type |-> IF mimeType = "" THEN "video/webm" ELSE mimeType, parts |-> parts]

\* stopRecording: the onstop handler it installs; blobOk: new Blob did not throw
OnStopOfStop(w, k, blobOk) ==
    IF blobOk
    THEN [Cleanup(w) EXCEPT
             !.stopCalls[k] = [status |-> "resolved",
                               blob |-> RecordingBlob(k, w.chunksRef, w.recorders[k].mimeType),
                               awaited |-> w.stopCalls[k].awaited]]
    ELSE [w EXCEPT !.stopCalls[k].status = "rejected"]

\* startRecording: the onstop handler it installs
OnStopOfStart(w) == [ClearTimer([w EXCEPT !.recordingState = "stopped"]) EXCEPT !.timerRef = 0]

\* stopRecording() that only checks that a recorder exists
StopRecordingAnyState(w) ==
    LET k == w.mediaRecorderRef IN
    IF k = 0 THEN w
    ELSE [w EXCEPT !.recorders[k].onstop = "stop",
                   !.recorders[k].state = "inactive",
                   !.recorders[k].pending = @ \o <<"dataavailable", "stop">>,
                   !.stopCalls[k].status = "pending",
                   !.stopCalls[k].awaited = TRUE]

\* stopRecording(): the executor of the promise it returns
StopRecordingBody(w) ==
    LET k == w.mediaRecorderRef IN
    IF k = 0 \/ w.recorders[k].state = "inactive" THEN w
    ELSE [w EXCEPT !.recorders[k].onstop = "stop",
                   !.recorders[k].state = "inactive",
                   !.recorders[k].pending = @ \o <<"dataavailable", "stop">>,
                   !.stopCalls[k].status = "pending",
                   !.stopCalls[k].awaited = TRUE]

\* stopRecording() rejects at once: no recorder, or an inactive one
NoActiveRecording(w) ==
    w.mediaRecorderRef = 0 \/ w.recorders[w.mediaRecorderRef].state = "inactive"

\* stopRecording()
StopRecording ==
    /\ SetWorld(StopRecordingBody(World))
    /\ stopRefused' = NoActiveRecording(World)
    /\ UNCHANGED <<now, isTypeSupported, nextStart, engineVars, appVars, utilVars>>

\* pauseRecording()
PauseRecording ==
    LET k == mediaRecorderRef IN
    /\ IF k # 0 /\ recorders[k].state = "recording"
       THEN SetWorld(ClearTimer([World EXCEPT !.recorders[k].state = "paused",
                                              !.recordingState = "paused"]))
       ELSE SetWorld(World)
    /\ UNCHANGED <<now, isTypeSupported, stopRefused, nextStart, engineVars, appVars, utilVars>>

\* resumeRecording()
ResumeRecording ==
    LET k == mediaRecorderRef IN
    /\ IF k # 0 /\ recorders[k].state = "paused"
       THEN SetWorld(SetTimer([World EXCEPT !.recorders[k].state = "recording",
                                            !.recordingState = "recording"]))
       ELSE SetWorld(World)
    /\ UNCHANGED <<now, isTypeSupported, stopRefused, nextStart, engineVars, appVars, utilVars>>

\* the recorder's start event: mediaRecorder.onstart
FireStart(k) ==
    /\ recorders[k].pending # <<>> /\ Head(recorders[k].pending) = "start"
    /\ SetWorld(SetTimer([World EXCEPT !.recorders[k].pending = Tail(@),
                                       !.recordingState = "recording",
                                       !.startTimeRef = now,
                                       !.duration = 0,
                                       !.recordedMs = 0]))
    /\ UNCHANGED <<now, isTypeSupported, stopRefused, nextStart, engineVars, appVars, utilVars>>

\* mediaRecorder.ondataavailable with event.data of the given size
OnDataAvailable(w, k, size) ==
    IF size > 0
    THEN [w EXCEPT !.chunksRef = Append(@, [rec |-> k, n |-> w.recorders[k].produced + 1,
                                             size |-> size]),
                   !.recorders[k].produced = @ + 1]
    ELSE w

\* a timeslice of the recorder ends while it is recording
Timeslice(k, size) ==
    /\ recorders[k].state = "recording"
    /\ size > 0 => recorders[k].produced < MaxChunks
    /\ SetWorld(OnDataAvailable(World, k, size))
    /\ UNCHANGED <<now, isTypeSupported, stopRefused, nextStart, engineVars, appVars, utilVars>>

\* the dataavailable event that follows stop() or an error
FireData(k, size) ==
    /\ recorders[k].pending # <<>> /\ Head(recorders[k].pending) = "dataavailable"
    /\ size > 0 => recorders[k].produced < MaxChunks
    /\ SetWorld(OnDataAvailable([World EXCEPT !.recorders[k].pending = Tail(@)], k, size))
    /\ UNCHANGED <<now, isTypeSupported, stopRefused, nextStart, engineVars, appVars, utilVars>>

\* the recorder's stop event: whichever onstop handler is installed
FireStop(k, blobOk) ==
    /\ recorders[k].pending # <<>> /\ Head(recorders[k].pending) = "stop"
    /\ LET w1 == [World EXCEPT !.recorders[k].pending = Tail(@)]
       IN  IF recorders[k].onstop = "stop"
           THEN SetWorld(OnStopOfStop(w1, k, blobOk))
           ELSE blobOk /\ SetWorld(OnStopOfStart(w1))
    /\ UNCHANGED <<now, isTypeSupported, stopRefused, nextStart, engineVars, appVars, utilVars>>

\* the recorder fails while recording or paused: it goes inactive and fires
\* error, dataavailable and stop
RecorderFails(k) ==
    /\ recorders[k].state \in {"recording", "paused"}
    /\ SetWorld([World EXCEPT !.recorders[k].state = "inactive",
                              !.recorders[k].pending = @ \o <<"error", "dataavailable", "stop">>])
    /\ UNCHANGED <<now, isTypeSupported, stopRefused, nextStart, engineVars, appVars, utilVars>>

\* the recorder's error event: mediaRecorder.onerror
FireError(k) ==
    /\ recorders[k].pending # <<>> /\ Head(recorders[k].pending) = "error"
    /\ SetWorld([World EXCEPT !.recorders[k].pending = Tail(@),
                              !.error = "Recording failed",
                              !.recordingState = "inactive"])
    /\ UNCHANGED <<now, isTypeSupported, stopRefused, nextStart, engineVars, appVars, utilVars>>

\* the 'ended' listener of the video track that handles it by cleanup()
OnEndedTearsDown(w, k) ==
    IF w.recorders[k].state = "recording" THEN Cleanup(w) ELSE w

\* the 'ended' listener startRecording call k put on its video track:
\* stopRecordingRef.current() if the recorder it made is recording; the
\* promise that call returns is not kept
OnEnded(w, k) ==
    IF w.recorders[k].state # "recording" THEN w
    ELSE IF NoActiveRecording(w) THEN StopRecordingBody(w)
    ELSE [StopRecordingBody(w) EXCEPT !.stopCalls[w.mediaRecorderRef].awaited = FALSE]

\* the user stops sharing: the display's tracks of session k end, and the
\* 'ended' event of the video track is queued for the listener
SourceEnds(k) ==
    /\ recorders[k].state # "none"
    /\ tracks[k].video = "live"
    /\ SetWorld([World EXCEPT
           !.tracks[k] = [r \in Roles |-> IF r \in {"video", "audio"} /\ @[r] = "live"
                                          THEN "ended" ELSE @[r]],
           !.endedQueue = @ \cup {k}])
    /\ UNCHANGED <<now, isTypeSupported, stopRefused, nextStart, engineVars, appVars, utilVars>>

\* the 'ended' event is delivered to the listener
FireEnded(k) ==
    /\ k \in endedQueue
    /\ SetWorld(OnEnded([World EXCEPT !.endedQueue = @ \ {k}], k))
    /\ UNCHANGED <<now, isTypeSupported, stopRefused, nextStart, engineVars, appVars, utilVars>>

\* a recorder whose stream has no live track left stops by itself: it goes
\* inactive and fires dataavailable and stop
RecorderEndsItself(k) ==
    /\ recorders[k].state \in {"recording", "paused"}
    /\ LiveTracks(recorders[k].stream) = {}
    /\ SetWorld([World EXCEPT !.recorders[k].state = "inactive",
                              !.recorders[k].pending = @ \o <<"dataavailable", "stop">>])
    /\ UNCHANGED <<now, isTypeSupported, stopRefused, nextStart, engineVars, appVars, utilVars>>

\* toggleMute(), as the hook's latest render defines it
ToggleMuteBody(w) ==
    IF w.streamRef.id = 0 THEN w
    ELSE [w EXCEPT !.enabled[w.streamRef.id] =
              [r \in Roles |-> IF r \in w.streamRef.roles \cap {"audio", "mixed"}
                               THEN w.isMuted ELSE @[r]],
                   !.isMuted = ~w.isMuted]

\* toggleMute()
ToggleMute ==
    /\ SetWorld(ToggleMuteBody(World))
    /\ UNCHANGED <<now, isTypeSupported, stopRefused, nextStart, engineVars, appVars, utilVars>>

\* updateTimer, run by an interval that is due
TimerFires(t) ==
    /\ t \in timers /\ t.due <= now
    /\ LET w1 == [World EXCEPT !.timers = (@ \ {t}) \cup {[t EXCEPT !.due = @ + TimerPeriodMs]}]
       IN  IF startTimeRef # 0
           THEN SetWorld([w1 EXCEPT !.duration = now - startTimeRef])
           ELSE SetWorld(w1)
    /\ UNCHANGED <<now, isTypeSupported, stopRefused, nextStart, engineVars, appVars, utilVars>>

\* the clock advances once every due interval has run; it is read only
\* relative to startTimeRef, so its steps are counted from the first onstart
Tick ==
    /\ startTimeRef # 0
    /\ now < (MaxTicks + 1) * StepMs
    /\ \A t \in timers : t.due > now
    /\ now' = now + StepMs
    /\ recordedMs' = IF recordingState = "recording" THEN recordedMs + StepMs ELSE recordedMs
    /\ UNCHANGED <<hookVars, recorders, tracks, timers, isTypeSupported, starts, stopCalls,
                   stopRefused, nextStart, enabled, endedQueue, releases, engineVars, appVars, utilVars>>

\* the controller after the hook's first render
RecorderIdle ==
    /\ recordingState = "inactive"
    /\ duration = 0
    /\ error = "none"
    /\ mediaRecorderRef = 0
    /\ streamRef = NoStream
    /\ chunksRef = <<>>
    /\ startTimeRef = 0
    /\ timerRef = 0
    /\ starts = [k \in Sessions |-> NoStart]
    /\ recorders = [k \in Sessions |-> NoRecorder]
    /\ tracks = [k \in Sessions |-> [r \in Roles |-> "none"]]
    /\ timers = {}
    /\ now = StepMs
    /\ stopCalls = [k \in Sessions |-> NoStop]
    /\ stopRefused = FALSE
    /\ nextStart = 1
    /\ recordedMs = 0
    /\ isMuted = FALSE
    /\ enabled = [k \in Sessions |-> [r \in Roles |-> TRUE]]
    /\ endedQueue = {}
    /\ releases = [k \in Sessions |-> 0]

\* the default parameter of startRecording
DefaultOptions == [video |-> TRUE, audio |-> AudioBool(TRUE)]

\* getDisplayMedia settles
DisplayEvents ==
    \E k \in Sessions :
        \/ \E withAudio \in BOOLEAN, setUp \in AllSetUps : DisplayGranted(k, withAudio, setUp)
        \/ \E cause \in DisplayErrors \cup {"TypeError"} : DisplayDenied(k, cause)

\* getUserMedia settles
MicEvents ==
    \E k \in Sessions :
        \/ \E graphOk \in BOOLEAN, setUp \in AllSetUps : MicGranted(k, graphOk, setUp)
        \/ \E setUp \in AllSetUps : MicDenied(k, setUp)

\* what a running recorder does, and the delivery of the events it queued
RecordingEvents ==
    \E k \in Sessions :
        \/ FireStart(k)
        \/ \E size \in {0, ChunkBytes} : Timeslice(k, size)
        \/ \E size \in {0, ChunkBytes} : FireData(k, size)
        \/ \E blobOk \in BOOLEAN : FireStop(k, blobOk)

\* a recorder fails
FailureEvents == \E k \in Sessions : RecorderFails(k) \/ FireError(k)

\* the user stops sharing, and what follows from it
EndedEvents == \E k \in Sessions : SourceEnds(k) \/ FireEnded(k) \/ RecorderEndsItself(k)

\* no startRecording call is suspended and the controller holds nothing
Idle ==
    /\ mediaRecorderRef = 0 /\ streamRef = NoStream /\ recordingState = "inactive"
    /\ \A k \in Sessions : starts[k].pc \notin {"display", "mic"}

\* the options with which the microphone is mixed in
MicOptions == [video |-> TRUE, audio |-> AudioObj(TRUE, TRUE)]

\* two capture sessions that the user may stop sharing; the clock is not read
EndedNext ==
    \/ \E options \in {DefaultOptions, MicOptions} : nextStart = 1 /\ StartRecording(options)
    \/ nextStart = 2 /\ StartRecording(DefaultOptions)
    \/ StopRecording
    \/ PauseRecording
    \/ ResumeRecording
    \/ DisplayEvents
    \/ MicEvents
    \/ \E k \in Sessions : FireStart(k) \/ FireData(k, ChunkBytes) \/ FireStop(k, TRUE)
    \/ EndedEvents

\* sessions one after the other, with the mute switch; the clock is not read
MuteNext ==
    \/ Idle /\ StartRecording(DefaultOptions)
    \/ StopRecording
    \/ ToggleMute
    \/ DisplayEvents
    \/ RecordingEvents

\* one capture session, with the clock
RecorderNext ==
    \/ \E options \in StartOptions : nextStart = 1 /\ StartRecording(options)
    \/ StopRecording
    \/ PauseRecording
    \/ ResumeRecording
    \/ Tick
    \/ \E t \in timers : TimerFires(t)
    \/ DisplayEvents
    \/ MicEvents
    \/ RecordingEvents
    \/ FailureEvents

\* startRecording called again at any time, with its default options; the
\* clock is not read
RestartNext ==
    \/ StartRecording(DefaultOptions)
    \/ StopRecording
    \/ PauseRecording
    \/ ResumeRecording
    \/ DisplayEvents
    \/ RecordingEvents
    \/ FailureEvents

vars == <<engineVars, recorderVars, appVars, utilVars>>

(***************************************************************************)
(* The ScreenRecorder component: handleStartRecording, handleStopRecording *)
(***************************************************************************)
\* handleStopRecording is not running
NoHandler == [pc |-> "idle", session |-> 0, job |-> 0, useCompression |-> FALSE]

\* the options handleStartRecording passes with the initial audioOptions
AppOptions == [video |-> TRUE, audio |-> AudioObj(TRUE, FALSE)]

\* handleStopRecording that takes result.blob whatever compress() did
FinalBlobLost(blob, job) == job.result.blob

\* handleStopRecording: finalBlob once compress() has settled
FinalBlob(blob, job) == IF job.pc = "resolved" THEN job.result.blob ELSE blob

\* handleStartRecording()
HandleStartRecording ==
    /\ nextStart <= MaxStarts
    /\ nextStart' = nextStart + 1
    /\ stopRefused' = FALSE
    /\ recordedVideo' = NoBlob
    /\ SetWorld(StartRecordingCall([World EXCEPT !.error = "none"], nextStart, AppOptions))
    /\ UNCHANGED <<isProcessing, useCompression, handler, now, isTypeSupported, engineVars, utilVars>>

\* handleStopRecording() up to await stopRecording(); a promise rejected at
\* once takes the handler through catch and finally
HandleStopRecording ==
    /\ ~isProcessing
    /\ SetWorld(StopRecordingBody(World))
    /\ stopRefused' = NoActiveRecording(World)
    /\ IF NoActiveRecording(World)
       THEN isProcessing' = FALSE /\ handler' = NoHandler
       ELSE /\ isProcessing' = TRUE
            /\ handler' = [pc |-> "stopping", session |-> mediaRecorderRef, job |-> 0,
                           useCompression |-> useCompression]
    /\ UNCHANGED <<useCompression, recordedVideo, now, isTypeSupported, nextStart, engineVars, utilVars>>

\* handleStopRecording after await stopRecording(), up to await compress()
StopSettled ==
    LET k == handler.session
        blob == stopCalls[k].blob
    IN  /\ handler.pc = "stopping"
        /\ stopCalls[k].status \in {"resolved", "rejected"}
        /\ IF stopCalls[k].status = "rejected"
           THEN /\ isProcessing' = FALSE /\ handler' = NoHandler
                /\ UNCHANGED <<recordedVideo, isCompressing, isInitialized, ffmpeg,
                               progressCallback, jobs, terminated, nextJob>>
           ELSE IF handler.useCompression
           THEN /\ nextJob <= MaxJobs
                /\ nextJob' = nextJob + 1
                /\ SetEngine(CompressCall(Engine, nextJob, blob))
                /\ handler' = [handler EXCEPT !.pc = "compressing", !.job = nextJob]
                /\ UNCHANGED <<recordedVideo, isProcessing>>
           ELSE /\ recordedVideo' = blob
                /\ isProcessing' = FALSE
                /\ handler' = [handler EXCEPT !.pc = "done"]
                /\ UNCHANGED <<isCompressing, isInitialized, ffmpeg, progressCallback, jobs,
                               terminated, nextJob>>
        /\ UNCHANGED <<useCompression, browserOk, recorderVars, utilVars>>

\* handleStopRecording after await compress(): setRecordedVideo(finalBlob), finally
CompressionSettled ==
    LET k == handler.session
        j == handler.job
    IN  /\ handler.pc = "compressing"
        /\ jobs[j].pc \in {"resolved", "rejected", "refused"}
        /\ recordedVideo' = FinalBlob(stopCalls[k].blob, jobs[j])
        /\ isProcessing' = FALSE
        /\ handler' = [handler EXCEPT !.pc = "done"]
        /\ UNCHANGED <<useCompression, engineVars, recorderVars, utilVars>>

\* the compression switch: setUseCompression(!useCompression)
ToggleCompression ==
    /\ useCompression' = ~useCompression
    /\ UNCHANGED <<isProcessing, recordedVideo, handler, engineVars, recorderVars, utilVars>>

\* the component after its first render
AppIdle ==
    /\ isProcessing = FALSE
    /\ useCompression = TRUE
    /\ recordedVideo = NoBlob
    /\ handler = NoHandler

\* one recording made and stopped through the component
AppNext ==
    \/ nextStart = 1 /\ HandleStartRecording
    \/ HandleStopRecording
    \/ StopSettled
    \/ CompressionSettled
    \/ ToggleCompression
    \/ DisplayEvents
    \/ RecordingEvents
    \/ EngineEvents

\* no helper called yet
UtilIdle ==
    /\ called = [fn |-> "none"]
    /\ returned = [fn |-> "none"]

\* before the first call: the pipeline in any browser, nothing else in use
InitEngine ==
    /\ EngineIdle /\ browserOk \in BOOLEAN
    /\ RecorderIdle /\ isTypeSupported = {}
    /\ AppIdle
    /\ UtilIdle

\* after the hook's first render, in any browser
InitRecorder ==
    /\ RecorderIdle /\ isTypeSupported \in Browsers
    /\ EngineIdle /\ browserOk = TRUE
    /\ AppIdle
    /\ UtilIdle

\* after the hook's first render, in a browser that records plain webm
InitRestart ==
    /\ RecorderIdle /\ isTypeSupported = {"video/webm", "video/mp4"}
    /\ EngineIdle /\ browserOk = TRUE
    /\ AppIdle
    /\ UtilIdle

\* a pipeline before its first call, in a browser that can load the engine
InitCancel ==
    /\ EngineIdle /\ browserOk = TRUE
    /\ RecorderIdle /\ isTypeSupported = {}
    /\ AppIdle
    /\ UtilIdle

\* after the component's first render, in a browser that records every type
InitApp ==
    /\ RecorderIdle
    /\ isTypeSupported = {"video/webm;codecs=vp9", "video/webm;codecs=vp8", "video/webm", "video/mp4"}
    /\ EngineIdle /\ browserOk \in BOOLEAN
    /\ AppIdle
    /\ UtilIdle

\* the helpers, called one after the other with any arguments
UtilsNext ==
    \/ \E e \in Thrown : HandleErrorCall(e)
    \/ \E type \in RecordingErrorTypes : CreateErrorCall(type)
    \/ \E preset \in QualityPresets : GetQualityConfigCall(preset)
    \/ \E type \in MimeTypes, quality \in Qualities : SelectStrategyCall(type, quality)

\* before any helper is called
InitUtils ==
    /\ UtilIdle
    /\ EngineIdle /\ browserOk = TRUE
    /\ RecorderIdle /\ isTypeSupported = {}
    /\ AppIdle

\* the helpers alone
SpecUtils == InitUtils /\ [][UtilsNext]_vars

\* the controller alone, with a user who may stop sharing
SpecEnded == InitRestart /\ [][EndedNext]_vars

\* the controller alone, with its mute switch, over several sessions
SpecMute == InitRestart /\ [][MuteNext]_vars

\* the pipeline alone, driven by any caller
SpecEngine == InitEngine /\ [][EngineNext]_vars

\* the controller alone, driven by a caller that starts again while a
\* session exists
SpecRestart == InitRestart /\ [][RestartNext]_vars

\* the controller alone, driven by any caller
SpecRecorder == InitRecorder /\ [][RecorderNext]_vars

\* the pipeline alone, with cancel() and calls made after it
SpecCancel == InitCancel /\ [][CancelNext]_vars

\* the component, the controller and the pipeline together
SpecApp == InitApp /\ [][AppNext]_vars


(***************************************************************************)
(* Properties of the compression pipeline.                                 *)
(***************************************************************************)

\* C1: compress() never rejects for a non-empty artifact submitted while no
\* other job is in flight: whatever fails inside the call, it resolves.
C1_NeverRejects ==
    \A j \in Jobs :
        (jobs[j].alone /\ jobs[j].blob.size > 0) => jobs[j].pc # "rejected"

\* C2: a call whose every encoding attempt failed has resolved with the
\* original artifact, compressedSize = originalSize, compressionRatio 0, and
\* its last progress update was 100 with the recovered-failure stage.
C2_PassthroughOnTotalFailure ==
    \A j \in Jobs :
        (Settled(j) /\ jobs[j].allFailed) =>
            /\ jobs[j].pc = "resolved"
            /\ jobs[j].result.blob = jobs[j].blob
            /\ jobs[j].result.compressedSize = jobs[j].result.originalSize
            /\ jobs[j].result.compressionRatio = 0
            /\ jobs[j].endProgress = 100
            /\ jobs[j].endStage = FailedStage

\* C5: at most one compression job is live at any time.
C5_AtMostOneLive == Cardinality({j \in Jobs : Live(j)}) <= 1

C28_OneFallbackThenSuccess ==
    [][\A j \in Jobs :
          /\ jobs'[j].fallbacks <= 1
          /\ jobs'[j].fallbacks > jobs[j].fallbacks
                => (jobs[j].pc = "exec" /\ jobs[j].strategy = "copy-mode")
          /\ (/\ jobs[j].fallbacks = 1
              /\ jobs[j].pc \in {"read", "del1", "del2"}
              /\ jobs'[j].pc \notin {"read", "del1", "del2"})
                => /\ jobs'[j].pc = "resolved"
                   /\ jobs'[j].result.blob = OutputBlob(j, jobs[j].outSize)]_vars

\* C29: compress() starts the initialisation exactly when it is accepted on
\* a pipeline that is not initialised, and then creates the engine; on an
\* initialised pipeline it creates none. A strategy's exec, or the basic
\* transcode, is only issued on a pipeline that is initialised, to an engine
\* that is loaded and not terminated.
C29_LazyInitOnly ==
    [][/\ nextJob' = nextJob + 1 =>
            /\ jobs'[nextJob].pc = "load" => (~isInitialized /\ ffmpeg' = nextJob)
            /\ isInitialized => (ffmpeg' = ffmpeg /\ isInitialized')
            /\ (~isInitialized /\ jobs'[nextJob].pc # "refused")
                  => (jobs'[nextJob].pc = "load" \/ ~browserOk)
       /\ \A j \in Jobs :
            (jobs'[j].pc \in {"exec", "basic"} /\ jobs'[j].pc # jobs[j].pc) =>
                /\ isInitialized'
                /\ jobs'[j].inst # 0 /\ jobs'[j].inst = ffmpeg'
                /\ jobs'[jobs'[j].inst].loaded
                /\ jobs'[j].inst \notin terminated']_vars

\* C30: when the initialisation of a compress() call fails, the call rejects
\* and leaves the pipeline not running, not initialised and without an
\* engine, the engine the call created being terminated and no engine that
\* another call awaits; a compress() accepted on a pipeline that is not
\* initialised starts the initialisation again.
C30_InitFailureIsLocal ==
    [][\A j \in Jobs :
          /\ (jobs[j].pc \in {"new", "load"} /\ jobs'[j].pc = "rejected") =>
                /\ jobs'[j].error = "FFmpeg initialization failed"
                /\ ~isCompressing' /\ ~isInitialized' /\ ffmpeg' = 0
                /\ jobs[j].pc = "load" => jobs[j].inst \in terminated'
                /\ \A k \in Jobs \ {j} :
                      Live(k) => jobs[k].inst \notin (terminated' \ terminated)
          /\ (/\ jobs[j].pc = "rejected" /\ jobs[j].error = "FFmpeg initialization failed"
              /\ nextJob' = nextJob + 1 /\ ~isInitialized /\ browserOk
              /\ jobs'[nextJob].pc # "refused")
                => (jobs'[nextJob].pc = "load" /\ ffmpeg' = nextJob)]_vars

\* C3: once handleStopRecording has finished a run in which stopRecording()
\* resolved and compression was enabled, the artifact kept for preview is the
\* compressed one if compress() resolved and the recorded one if it did not;
\* it is never absent.
C3_RecordingKept ==
    (handler.pc = "done" /\ handler.useCompression) =>
        /\ recordedVideo # NoBlob
        /\ jobs[handler.job].pc = "resolved"
              => recordedVideo = jobs[handler.job].result.blob
        /\ jobs[handler.job].pc # "resolved"
              => recordedVideo = stopCalls[handler.session].blob

\* C3 witness: compress() rejected a non-empty recording and the recording
\* was kept
C3_Witness ==
    /\ handler.pc = "done" /\ handler.useCompression
    /\ jobs[handler.job].pc = "rejected"
    /\ stopCalls[handler.session].blob.size > 0
    /\ recordedVideo = stopCalls[handler.session].blob


\* C15: whichever engine command an accepted call is waiting for (the load,
\* the version test, the strategy, the basic transcode), a timeout is armed
\* that will move the call on if the command never completes.
C15_TimeoutGuardsEveryCommand ==
    \A j \in Jobs :
        jobs[j].pc \in {"load", "version", "exec", "basic"} => ENABLED Timeout(j)

\* C16: while the exec a call gave up on is still running on an instance, no
\* call has a strategy or a basic transcode running on that instance.
C16_TimedOutExecIsAborted ==
    \A j, k \in Jobs :
        (jobs[j].pc # "exec" /\ jobs[j].execInst # 0 /\ jobs[j].execInst \notin terminated)
            => ~(jobs[k].pc \in {"exec", "basic"} /\ jobs[k].inst = jobs[j].execInst)

\* C17: a call whose awaited engine command was cut off by cancel() settles
\* by resolving, never by rejecting.
C17_CancelledCallResolves ==
    [][\A j \in Jobs :
          (Live(j) /\ jobs[j].inst \in terminated /\ jobs'[j].pc \in {"resolved", "rejected"})
              => jobs'[j].pc = "resolved"]_vars

\* C18: the values delivered to the onProgress of one call lie in 0..100 and
\* never decrease.
C18_ProgressMonotone ==
    [][\A j \in Jobs :
          /\ jobs'[j].progress \in -1..100
          /\ jobs[j].progress >= 0 => jobs'[j].progress >= jobs[j].progress]_vars

\* C31: cancel() terminates the engine and drops its handle, and leaves
\* isRunning() and isReady() false; without an engine it terminates nothing.
\* While the handle stays dropped the pipeline stays uninitialised, so that
\* the next accepted compress() creates and loads an engine before it
\* executes anything.
C31_CancelResetsPipeline ==
    [][/\ (/\ jobs' = jobs /\ nextJob' = nextJob
           /\ <<ffmpeg, isCompressing, isInitialized, terminated>>'
                # <<ffmpeg, isCompressing, isInitialized, terminated>>)
            => /\ ffmpeg' = 0 /\ ~isCompressing' /\ ~isInitialized'
               /\ terminated' = terminated \cup ({ffmpeg} \ {0})
       /\ ffmpeg' = 0 => ~isInitialized'
       /\ (nextJob' = nextJob + 1 /\ ffmpeg = 0 /\ jobs'[nextJob].pc # "refused")
            => (jobs'[nextJob].pc = "load" /\ ffmpeg' = nextJob)]_vars

\* C32: the artifact a call resolved with is never larger than the one it
\* was given: compressedSize <= originalSize, compressionRatio >= 0, and an
\* output of the engine that is larger than the input is not the result.
C32_NeverLargerThanOriginal ==
    \A j \in Jobs :
        jobs[j].pc = "resolved" =>
            /\ jobs[j].result.compressedSize <= jobs[j].result.originalSize
            /\ jobs[j].result.compressionRatio >= 0
            /\ jobs[j].result.blob.by = "ffmpeg"
                  => jobs[j].result.blob.size <= jobs[j].blob.size

\* C39: the onProgress of a call that has settled receives nothing more, and
\* the onProgress of a call receives an update only in a step of that call:
\* no other call moves in the step, and a step that only delivers a sample
\* is the interval that the call itself armed.
C39_ProgressOnlyOfLiveOwnJob ==
    [][\A j \in Jobs :
          (jobs'[j].progress # jobs[j].progress \/ jobs'[j].stage # jobs[j].stage) =>
              /\ ~Settled(j)
              /\ \A k \in Jobs \ {j} : jobs'[k] = jobs[k]
              /\ jobs'[j].pc = jobs[j].pc => jobs[j].interval]_vars

\* C40: when an accepted call settles, isRunning() is false afterwards; a
\* compress() of a non-empty artifact made while isRunning() is false is
\* accepted; a compress() refused up front (already running, or an empty
\* artifact) leaves the in-flight flag, the engine and every other call as
\* they were.
C40_NoLockOut ==
    [][/\ \A j \in Jobs : (Live(j) /\ Settled(j)') => ~isCompressing'
       /\ nextJob' = nextJob + 1 =>
            /\ (~isCompressing /\ jobs'[nextJob].blob.size > 0)
                  => jobs'[nextJob].pc # "refused"
            /\ jobs'[nextJob].pc = "refused" =>
                  /\ isCompressing' = isCompressing
                  /\ isInitialized' = isInitialized
                  /\ ffmpeg' = ffmpeg
                  /\ terminated' = terminated
                  /\ progressCallback' = progressCallback
                  /\ \A k \in Jobs \ {nextJob} : jobs'[k] = jobs[k]]_vars

\* C40 witness: a call made when no other call was live was accepted and
\* is in flight after an earlier accepted call has settled
C40_Witness ==
    \E j, k \in Jobs :
        /\ j < k
        /\ Settled(j) /\ Live(k) /\ isCompressing
        /\ jobs[k].alone


(***************************************************************************)
(* Properties of the capture session controller.                           *)
(***************************************************************************)
Abs(n) == IF n < 0 THEN -n ELSE n

\* C4: as long as no recorder has failed, every sample taken by the timer the
\* controller holds equals the time spent in 'recording' since onstart,
\* within one sampling period.
C4_ElapsedExcludesPauses ==
    [][((\E t \in timers : t.id = timerRef /\ TimerFires(t))
            /\ startTimeRef # 0 /\ error = "none")
          => Abs(duration' - recordedMs') <= TimerPeriodMs]_vars

\* C7: a startRecording() made while the controller is recording is rejected
\* and leaves the owned stream, the recorder, the buffered segments, the
\* elapsed time and the state as they were.
C7_StartWhileRecordingRejected ==
    [][(nextStart' = nextStart + 1 /\ recordingState = "recording") =>
          /\ starts'[nextStart].pc = "failed"
          /\ UNCHANGED <<streamRef, mediaRecorderRef, chunksRef, duration, recordingState>>]_vars

\* C8: a stopRecording() made while there is no recorder or the recorder is
\* inactive rejects and changes nothing of the controller, its recorders,
\* tracks and timers, nor the promise of an earlier stopRecording().
C8_RefusedStopMutatesNothing ==
    [][(NoActiveRecording(World) /\ StopRecording) =>
          /\ stopRefused'
          /\ UNCHANGED <<hookVars, recorders, tracks, timers, stopCalls>>]_vars

\* C8 witness: a second stopRecording() was refused while the first one was
\* still waiting for the recorder's stop event
C8_Witness ==
    /\ stopRefused
    /\ \E k \in Sessions : stopCalls[k].status = "pending" /\ recorders[k].state = "inactive"

\* C9: once the stopRecording() a recorder accepted has settled, resolved or
\* rejected, no track of the recorded stream is live and the controller is
\* inactive.
C9_StopReleasesAlways ==
    \A k \in Sessions :
        stopCalls[k].status \in {"resolved", "rejected"} =>
            /\ LiveTracks(recorders[k].stream) = {}
            /\ recordingState = "inactive"

\* C10: a startRecording() that failed has left the controller inactive with
\* an error set, no track of its session live and no owned stream.
C10_FailedStartReleases ==
    \A k \in Sessions :
        starts[k].pc = "failed" =>
            /\ recordingState = "inactive"
            /\ error # "none"
            /\ LiveOfSession(k) = {}
            /\ streamRef = NoStream

\* C14: pauseRecording() while the controller is not 'recording' and
\* resumeRecording() while it is not 'paused' change nothing of the
\* controller, its recorders and its timers.
C14_InvalidPauseResumeNoOp ==
    [][((PauseRecording /\ recordingState # "recording")
           \/ (ResumeRecording /\ recordingState # "paused"))
          => UNCHANGED <<recordingState, duration, timerRef, timers, streamRef, chunksRef,
                         recorders>>]_vars

\* C19: a startRecording() that found no supported type has left an error
\* classified NOT_SUPPORTED and not recoverable, and the controller inactive.
C19_NoFormatIsNotSupported ==
    error = NoFormatMessage =>
        /\ HandleError(error).type = "NOT_SUPPORTED"
        /\ ~HandleError(error).recoverable
        /\ recordingState = "inactive"

\* C20: a startRecording() goes on to getDisplayMedia only if its options ask
\* for the screen or some audio source; one that fails at once fails with the
\* validation error, with no track of its session live and the controller
\* inactive.
C20_NothingRequestedIsRefused ==
    [][nextStart' = nextStart + 1 =>
          /\ starts'[nextStart].pc = "display" => Requests(starts'[nextStart].options)
          /\ starts'[nextStart].pc = "failed" =>
                /\ error' = NothingEnabledMessage
                /\ recordingState' = "inactive"
                /\ \A r \in Roles : tracks'[nextStart][r] # "live"]_vars

\* C11: no session's tracks are stopped by cleanup() more than once; an
\* 'ended' event delivered while its recorder is recording does what an
\* explicit stopRecording() does (the controller's recorder, if active, is
\* stopped with the handler of the stop and nothing is released yet), and one
\* delivered when its recorder is not recording (stop already requested, or
\* torn down) changes nothing.
C11_OneTeardown ==
    [][/\ \A k \in Sessions : releases'[k] <= 1
       /\ \A k \in Sessions :
            (k \in endedQueue /\ k \notin endedQueue') =>
                IF recorders[k].state = "recording"
                THEN /\ releases' = releases
                     /\ tracks' = tracks
                     /\ streamRef' = streamRef
                     /\ (mediaRecorderRef # 0 /\ recorders[mediaRecorderRef].state # "inactive")
                          => /\ recorders'[mediaRecorderRef].state = "inactive"
                             /\ recorders'[mediaRecorderRef].onstop = "stop"
                             /\ stopCalls'[mediaRecorderRef].status = "pending"
                ELSE UNCHANGED <<hookVars, recorders, tracks, timers, stopCalls, releases>>]_vars

\* C11 witness: the session was torn down once by an explicit stopRecording()
\* and the 'ended' event of its video track is still to be delivered
C11_Witness ==
    \E k \in Sessions :
        /\ k \in endedQueue
        /\ stopCalls[k].status = "resolved"
        /\ releases[k] = 1
        /\ streamRef = NoStream /\ recordingState = "inactive"

\* C12: an 'ended' event delivered while the session is active, recording or
\* paused, enters the stop path: the recorder is stopped and the promise of
\* the stop is pending.
C12_EndedStopsActiveSession ==
    [][\A k \in Sessions :
          (k \in endedQueue /\ k \notin endedQueue'
              /\ recordingState \in {"recording", "paused"}
              /\ recorders[k].state \in {"recording", "paused"})
            => (recorders'[k].state = "inactive" /\ stopCalls'[k].status = "pending")]_vars

\* C13: while a session is active, recording or paused, two toggleMute()
\* calls in a row leave the enabled flag of every track of the owned stream
\* as it was.
C13_ToggleTwiceRestores ==
    (recordingState \in {"recording", "paused"} /\ streamRef # NoStream)
        => ToggleMuteBody(ToggleMuteBody(World)).enabled[streamRef.id] = enabled[streamRef.id]

\* C33: a toggleMute() during an active session inverts the enabled flag of
\* every audio track of the owned stream and changes nothing else of the
\* session: its tracks' liveness, the recorder, the reported state, the
\* elapsed time, the buffered segments and the timer stay as they were.
C33_ToggleFlipsAudioOnly ==
    [][(isMuted' # isMuted /\ recordingState \in {"recording", "paused"}) =>
          /\ \A r \in streamRef.roles \cap {"audio", "mixed"} :
                enabled'[streamRef.id][r] = ~enabled[streamRef.id][r]
          /\ \A k \in Sessions : \A r \in Roles :
                (k # streamRef.id \/ r \notin {"audio", "mixed"})
                    => enabled'[k][r] = enabled[k][r]
          /\ UNCHANGED <<recordingState, duration, error, mediaRecorderRef, streamRef,
                         chunksRef, startTimeRef, timerRef, recorders, tracks, timers>>]_vars

\* C34: when the error event of the recorder is handled during a session
\* that is recording or paused, the session is destroyed: the controller
\* reports inactive with the error set, no track of the owned stream is
\* live, the buffered segments are gone and no timer is armed.
C34_RecorderErrorDestroysSession ==
    [][\A k \in Sessions :
          (/\ recordingState \in {"recording", "paused"} /\ mediaRecorderRef = k
           /\ recorders[k].pending # <<>> /\ Head(recorders[k].pending) = "error"
           /\ recorders'[k].pending = Tail(recorders[k].pending)) =>
              /\ recordingState' = "inactive"
              /\ error' # "none"
              /\ \A r \in streamRef.roles : tracks'[streamRef.id][r] # "live"
              /\ chunksRef' = <<>>
              /\ timers' = {} /\ timerRef' = 0]_vars

\* C35: at most one duration timer is armed, and one is armed only while the
\* reported state is recording.
C35_OneTimerOnlyWhileRecording ==
    /\ Cardinality(timers) <= 1
    /\ timers # {} => recordingState = "recording"

\* no event of a recorder is waiting for its handler and no startRecording
\* call is suspended
Quiescent ==
    \A k \in Sessions : recorders[k].pending = <<>> /\ starts[k].pc \notin {"display", "mic"}

\* C36: once every queued event has been handled, the reported state agrees
\* with the recorders: it is recording or paused exactly when the
\* controller's recorder is, no other recorder is recording or paused, and
\* when it is inactive the controller owns no live track and buffers no
\* segment.
C36_StateAgreesWithRecorder ==
    Quiescent =>
        /\ recordingState \in {"recording", "paused"} =>
              (mediaRecorderRef # 0 /\ recorders[mediaRecorderRef].state = recordingState)
        /\ \A k \in Sessions :
              recorders[k].state \in {"recording", "paused"} =>
                  (mediaRecorderRef = k /\ recordingState = recorders[k].state)
        /\ recordingState = "inactive" =>
              (LiveTracks(streamRef) = {} /\ chunksRef = <<>>)

\* C38: once a session has been torn down and the controller reports
\* inactive, no track acquired for the session is live: not of the display,
\* not of the microphone, not of the mixing graph; and a session whose merge
\* failed records the screen stream with no microphone track left live.
C38_EveryTrackReleased ==
    \A k \in Sessions :
        /\ (stopCalls[k].status = "resolved" /\ recordingState = "inactive")
              => LiveOfSession(k) = {}
        /\ (starts[k].pc \in {"done", "failed"} /\ tracks[k].mixed = "none")
              => tracks[k].mic # "live"

\* C37: the recording of a stop that the 'ended' listener started is not
\* lost: when the stop has resolved, its artifact is held by whoever awaits
\* the promise, or the segments it was built from are still buffered.
C37_EndedStopKeepsRecording ==
    \A k \in Sessions :
        (stopCalls[k].status = "resolved" /\ stopCalls[k].blob.size > 0) =>
            \/ stopCalls[k].awaited
            \/ \A i \in DOMAIN stopCalls[k].blob.parts :
                  \E c \in DOMAIN chunksRef : chunksRef[c] = stopCalls[k].blob.parts[i]

StateGraph ==
    {<<"inactive", "recording">>, <<"recording", "paused">>, <<"paused", "recording">>,
     <<"recording", "stopped">>, <<"stopped", "inactive">>}

\* C25: every change of recordingState out of recording, paused or stopped
\* follows an edge of the state graph, or goes to inactive with a new error
\* set.
C25_OnlyGraphEdges ==
    [][(recordingState # "inactive" /\ recordingState' # recordingState) =>
          \/ <<recordingState, recordingState'>> \in StateGraph
          \/ /\ recordingState' = "inactive"
             /\ error' # "none" /\ error' # error]_vars

\* C26: the artifact a stopRecording() call resolved with holds the
\* non-empty segments its recorder produced, all of them, once each, in the
\* order produced, and no segment of another recorder.
C26_ArtifactIsWhatWasRecorded ==
    \A k \in Sessions :
        stopCalls[k].status = "resolved" =>
            /\ Len(stopCalls[k].blob.parts) = recorders[k].produced
            /\ \A i \in DOMAIN stopCalls[k].blob.parts :
                  /\ stopCalls[k].blob.parts[i].rec = k
                  /\ stopCalls[k].blob.parts[i].n = i

(***************************************************************************)
(* Properties of the helpers.                                              *)
(***************************************************************************)

\* what handleError was given matches no category: it is no Error, or a
\* DOMException of a name the switch does not list, or an Error whose message
\* has none of the words looked for
Unrecognised(e) ==
    \/ ~e.dom /\ e.name = ""
    \/ e.dom /\ e.name \notin {"NotAllowedError", "NotSupportedError", "NotFoundError",
                               "AbortError", "NotReadableError", "OverconstrainedError"}
    \/ /\ ~e.dom /\ e.name # ""
       /\ \A i \in DOMAIN e.words :
            ToLowerCase(e.words)[i] \notin {"compression", "ffmpeg", "download", "blob",
                                            "permission", "access", "network", "fetch"}

\* C21: handleError maps every input that matches no known category to
\* UNKNOWN, not recoverable.
C21_UnmatchedIsUnknown ==
    (called.fn = "handleError" /\ Unrecognised(called.error))
        => (returned.type = "UNKNOWN" /\ ~returned.recoverable)

\* the kinds the taxonomy calls recoverable
RecoverableKinds ==
    {"PERMISSION_DENIED", "NO_DEVICES", "RECORDING_FAILED", "STREAM_ENDED",
     "COMPRESSION_FAILED", "DOWNLOAD_FAILED"}

\* C22: every error handleError or createError (with default options)
\* produces is recoverable exactly when its kind is one of the recoverable
\* kinds.
C22_RecoverableFixedByKind ==
    called.fn \in {"handleError", "createError"}
        => (returned.recoverable <=> returned.type \in RecoverableKinds)

\* C23: looking up a quality name returns exactly its row of the table:
\* balanced 4000000/128000/30/1280x720, high 8000000/192000/60/1920x1080,
\* compressed 2000000/96000/24/854x480.
C23_QualityRow ==
    called.fn = "getQualityConfig" =>
        returned = CASE called.preset = "balanced" ->
                            [videoBitsPerSecond |-> 4000000, audioBitsPerSecond |-> 128000,
                             frameRate |-> 30, width |-> 1280, height |-> 720]
                     [] called.preset = "high" ->
                            [videoBitsPerSecond |-> 8000000, audioBitsPerSecond |-> 192000,
                             frameRate |-> 60, width |-> 1920, height |-> 1080]
                     [] called.preset = "compressed" ->
                            [videoBitsPerSecond |-> 2000000, audioBitsPerSecond |-> 96000,
                             frameRate |-> 24, width |-> 854, height |-> 480]

\* C23 witness: the row of a preset other than the default was looked up
C23_Witness == called.fn = "getQualityConfig" /\ called.preset = "compressed"

\* the types whose codec tags name both vp9 and opus
NamesBothCodecs == {"video/webm;codecs=vp9,opus", "video/mp4;codecs=vp9,opus"}

\* C27: copy mode (remux) is selected exactly when the type names both vp9
\* and opus, whatever the quality asked for; otherwise transcode mode is
\* selected with the arguments of the quality asked for, those of balanced
\* if the quality is not a preset.
C27_StrategyByCodecTags ==
    called.fn = "selectStrategy" =>
        /\ returned.strategy = "copy-mode" <=> called.mime \in NamesBothCodecs
        /\ returned.strategy # "copy-mode" =>
              /\ returned.strategy = "transcode-mode"
              /\ returned.args =
                    Presets[IF called.quality \in {"high", "balanced", "compressed"}
                            THEN called.quality ELSE "balanced"]

\* C27 witness: an artifact that names vp9 but not opus was given a
\* strategy, with a quality that is no preset
C27_Witness ==
    /\ called.fn = "selectStrategy"
    /\ called.mime = "video/webm;codecs=vp9" /\ called.quality = "ultra"
    /\ returned.strategy = "transcode-mode"

====
